---- MODULE Spec2Model ----
(***************************************************************************)
(* A model of A2C.py: the run started by main(), the construction of the   *)
(* critic network by build_networks(), and the training loop learn() of    *)
(* the two learner variants (A2C.learn for A2CDiscrete, and                *)
(* A2CContinuous.learn).                                                   *)
(*                                                                         *)
(* Learner.get_trajectories, utils.discount_rewards and the Reporter are   *)
(* imported by A2C.py from other modules; they are modelled from the       *)
(* specification (sections 4.1, 4.2 and 6).                                *)
(***************************************************************************)
EXTENDS Integers, Sequences, FiniteSets, TLC

\* ------------------------------------------------------------------ bounds
MaxNIter == 2              \* config["n_iter"] ranges over 0..MaxNIter
MaxHidden == 2             \* actor_n_hidden, critic_n_hidden range over 1..MaxHidden
EpisodeMaxLength == 2      \* config["episode_max_length"]
TimestepsPerBatch == 2     \* config["timesteps_per_batch"]
ObservationDim == 2        \* self.nO

\* -------------------------------------------------------------- defaults
ActorNHidden == 20         \* config["actor_n_hidden"]
CriticNHidden == 20        \* config["critic_n_hidden"]

\* possible_actions: the action values of the environment
Actions == {0, 1}

\* config["gamma"] as an exact fraction <<numerator, denominator>>: the
\* default 0.99, and one half
Gammas == {<<99, 100>>, <<1, 2>>}

\* ------------------------------------------------- exact rational numbers
RECURSIVE GCD(_, _)
GCD(a, b) == IF b = 0 THEN a ELSE GCD(b, a % b)

Norm(q) ==
    LET g == GCD(q[1], q[2])
    IN  IF g = 0 THEN q ELSE <<q[1] \div g, q[2] \div g>>

Rat(n) == <<n, 1>>
RAdd(p, q) == Norm(<<p[1] * q[2] + q[1] * p[2], p[2] * q[2]>>)
RMul(p, q) == Norm(<<p[1] * q[1], p[2] * q[2]>>)

RECURSIVE SumSeq(_)
SumSeq(s) == IF s = <<>> THEN 0 ELSE Head(s) + SumSeq(Tail(s))

\* np.concatenate over a list of arrays
RECURSIVE Concatenate(_)
Concatenate(ss) == IF ss = <<>> THEN <<>> ELSE Head(ss) \o Concatenate(Tail(ss))

\* np.mean of an integer array, as an exact fraction
Mean(s) == Norm(<<SumSeq(s), Len(s)>>)

\* -------------------------------------------------------- discount_rewards
\* utils.discount_rewards(x, gamma): the decayed suffix sum, right to left
RECURSIVE discount_rewards(_, _)
discount_rewards(x, gamma) ==
    IF x = <<>> THEN <<>>
    ELSE LET rest == discount_rewards(Tail(x), gamma)
         IN  IF rest = <<>>
             THEN <<Rat(Head(x))>>
             ELSE <<RAdd(Rat(Head(x)), RMul(gamma, Head(rest)))>> \o rest

\* ------------------------------------------------------ get_trajectories
\* The environment is a deterministic chain: its observation is the step
\* index and the reward of a step is the index of the action taken.  The
\* action of every step, sampled by the policy, is free.
EnvReward(a) == a

\* one episode of at most EpisodeMaxLength steps
Episodes ==
    UNION {{[state |-> [t \in 1..L |-> t - 1],
             action |-> a,
             reward |-> [t \in 1..L |-> EnvReward(a[t])]] :
              a \in [1..L -> Actions]} :
           L \in 1..EpisodeMaxLength}

BatchTimesteps(b) == SumSeq([i \in 1..Len(b) |-> Len(b[i].reward)])

\* batch_update = "timesteps": episodes are added until the total number of
\* timesteps reaches timesteps_per_batch
RECURSIVE TimestepBatchesFrom(_)
TimestepBatchesFrom(prefix) ==
    IF BatchTimesteps(prefix) >= TimestepsPerBatch
    THEN {prefix}
    ELSE UNION {TimestepBatchesFrom(Append(prefix, e)) : e \in Episodes}

TimestepBatches == TimestepBatchesFrom(<<>>)

\* the batches self.get_trajectories() can return; batch_update is always
\* the default "timesteps", main() passing no user configuration
get_trajectories == TimestepBatches

\* the value the critic with parameters of version v gives to state s
CriticValue(v, s) == <<v, s>>

\* ------------------------------------------------------------------ state
VARIABLES
    pc,                   \* position of main() / learn()
    outcome,              \* "running", "returned", or the exception that left main()
    raised,               \* the exception raised and the position it was raised at
    config,               \* self.config
    action_space,         \* kind of env.action_space; "none" before gym.make
    agent,                \* class of the constructed learner, "none" before
    critic,               \* <<>> or <<shapes of the critic variables>>
    iteration,            \* loop index of learn()
    total_n_trajectories,
    trajectories,         \* local of learn(); each entry tagged with the iteration
                          \* and policy version it was collected under
    all_action, all_state, returns, qw_new,
    episode_rewards, episode_lengths,
    actorVersion,         \* number of actor_train steps applied
    criticVersion,        \* number of critic_train steps applied
    feed,                 \* <<>> or <<feed_dict of the sess.run just executed>>
    updates,              \* log of the gradient updates
    summaries,            \* iterations passed to writer.add_summary
    reports,              \* calls of reporter.print_iteration_stats
    collected,            \* <<iteration, index>> of every trajectory returned by
                          \* get_trajectories
    collectedSteps        \* timesteps in the batch get_trajectories returned last

learnerVars == <<iteration, total_n_trajectories, trajectories, all_action, all_state,
                 returns, qw_new, episode_rewards, episode_lengths, collected,
                 collectedSteps>>
effectVars == <<actorVersion, criticVersion, feed, updates, summaries, reports>>
setupVars == <<config, action_space, agent, critic>>
vars == <<pc, outcome, raised, setupVars, learnerVars, effectVars>>

\* self.config with the default sizes of the hidden layers
DefaultConfigs ==
    [n_iter : 0..MaxNIter,
     gamma : Gammas,
     batch_update : {"timesteps"},
     actor_n_hidden : {ActorNHidden},
     critic_n_hidden : {CriticNHidden}]

\* self.config after config.update(usercfg) with any sizes of the hidden layers
UserConfigs ==
    [n_iter : 0..MaxNIter,
     gamma : Gammas,
     batch_update : {"timesteps"},
     actor_n_hidden : 1..MaxHidden,
     critic_n_hidden : 1..MaxHidden]

Start(configs) ==
    /\ pc = "parse_args"
    /\ outcome = "running"
    /\ raised = [exc |-> "none", at |-> "none"]
    /\ config \in configs
    /\ action_space = "none"
    /\ agent = "none"
    /\ critic = <<>>
    /\ iteration = 0
    /\ total_n_trajectories = 0
    /\ trajectories = <<>>
    /\ all_action = <<>>
    /\ all_state = <<>>
    /\ returns = <<>>
    /\ qw_new = <<>>
    /\ episode_rewards = <<>>
    /\ episode_lengths = <<>>
    /\ actorVersion = 0
    /\ criticVersion = 0
    /\ feed = <<>>
    /\ updates = <<>>
    /\ summaries = <<>>
    /\ reports = <<>>
    /\ collected = {}
    /\ collectedSteps = 0

Init == Start(DefaultConfigs)

InitUserConfig == Start(UserConfigs)

\* ------------------------------------------------------- build_networks
\* static shape of tf.matmul(a, b); a leading dimension 0 is the unknown
\* batch dimension of a placeholder
MatMulOk(a, b) == a[2] = b[1]
MatMulShape(a, b) == <<a[1], b[2]>>

\* static shape of a + b with broadcasting, one dimension
BroadcastOk(x, y) == x = y \/ x = 1 \/ y = 1
BroadcastDim(x, y) == IF x = 1 THEN y ELSE x

\* The critic network of build_networks(), identical in both variants:
\* the shapes of its variables, and whether the graph can be built.
CriticNetwork(cfg) ==
    LET critic_state_in == <<0, ObservationDim>>
        critic_W0 == <<ObservationDim, cfg.critic_n_hidden>>
        critic_b0 == <<cfg.actor_n_hidden>>
        critic_W1 == <<cfg.actor_n_hidden, 1>>
        critic_b1 == <<1>>
        hidden == MatMulShape(critic_state_in, critic_W0)
        critic_L1 == <<hidden[1], BroadcastDim(hidden[2], critic_b0[1])>>
        critic_value == <<critic_L1[1], BroadcastDim(critic_W1[2], critic_b1[1])>>
    IN  [critic_W0 |-> critic_W0,
         critic_b0 |-> critic_b0,
         critic_W1 |-> critic_W1,
         critic_b1 |-> critic_b1,
         critic_value |-> critic_value,
         ok |-> /\ MatMulOk(critic_state_in, critic_W0)
                /\ BroadcastOk(hidden[2], critic_b0[1])
                /\ MatMulOk(critic_L1, critic_W1)
                /\ BroadcastOk(critic_W1[2], critic_b1[1])]

\* ------------------------------------------------------------------ main
\* the statements of main() enclosed by try: ... except KeyboardInterrupt
TryBlock == {"wrap", "loop", "collect", "evaluate", "update", "add_summary", "report"}


\* variants of the handler: the Monitor wrapping left outside the try
\* block, and a bare except
CaughtOnlyInLearn(exc, at) == at \in (TryBlock \ {"wrap"}) /\ exc = "KeyboardInterrupt"
CaughtAnything(exc, at) == at \in TryBlock

\* whether main()'s handler swallows exception exc raised at position at
Caught(exc, at) == at \in TryBlock /\ exc = "KeyboardInterrupt"

\* how main() ends when exc is raised at position at
Propagate(exc, at) ==
    IF at = "parse_args" THEN "SystemExit"      \* bare except: sys.exit()
    ELSE IF Caught(exc, at) THEN "returned"
    ELSE exc

Raise(exc) ==
    /\ raised' = [exc |-> exc, at |-> pc]
    /\ outcome' = Propagate(exc, pc)
    /\ pc' = "exit"


\* variant: the last branch falls through to the continuous learner
AgentClassElseBox(space) ==
    IF space = "Discrete" THEN "A2CDiscrete" ELSE "A2CContinuous"

\* the learner class main() constructs for an action space
AgentClass(space) ==
    IF space = "Discrete" THEN "A2CDiscrete"
    ELSE IF space = "Box" THEN "A2CContinuous"
    ELSE "NotImplementedError"

ParseArgs ==
    /\ pc = "parse_args"
    /\ pc' = "make_env"
    /\ UNCHANGED <<outcome, raised, setupVars, learnerVars, effectVars>>

ParseArgsFail ==
    /\ pc = "parse_args"
    /\ Raise("SystemExit")
    /\ UNCHANGED <<setupVars, learnerVars, effectVars>>

GymMake ==
    /\ pc = "make_env"
    /\ action_space' \in {"Discrete", "Box", "Other"}
    /\ pc' = "construct"
    /\ UNCHANGED <<outcome, raised, config, agent, critic, learnerVars, effectVars>>

ConstructAgent ==
    /\ pc = "construct"
    /\ LET cls == AgentClass(action_space)
           net == CriticNetwork(config)
       IN  IF cls = "NotImplementedError"
           THEN /\ Raise("NotImplementedError")
                /\ UNCHANGED <<agent, critic>>
           ELSE IF net.ok
           THEN /\ agent' = cls
                /\ critic' = <<net>>
                /\ pc' = "wrap"
                /\ UNCHANGED <<outcome, raised>>
           ELSE /\ Raise("ValueError")
                /\ UNCHANGED <<agent, critic>>
    /\ UNCHANGED <<config, action_space, learnerVars, effectVars>>

WrapMonitor ==
    /\ pc = "wrap"
    /\ pc' = "loop"
    /\ UNCHANGED <<outcome, raised, setupVars, learnerVars, effectVars>>

KeyboardInterrupt ==
    /\ pc # "exit"
    /\ Raise("KeyboardInterrupt")
    /\ UNCHANGED <<setupVars, learnerVars, effectVars>>


\* variant: range(config["n_iter"] + 1)
LoopContinuesInclusive(i, n_iter) == i <= n_iter

\* ----------------------------------------------------------------- learn
\* for iteration in range(config["n_iter"])
LoopContinues(i, n_iter) == i < n_iter

LoopHead ==
    /\ pc = "loop"
    /\ IF LoopContinues(iteration, config.n_iter)
       THEN pc' = "collect" /\ UNCHANGED outcome
       ELSE pc' = "exit" /\ outcome' = "returned"
    /\ UNCHANGED <<raised, setupVars, learnerVars, effectVars>>

\* a batch as returned to learn(): every recorded state carries the
\* trajectory it belongs to and the policy version that chose its action
Tagged(batch, iter, policy) ==
    [i \in 1..Len(batch) |->
        [state |-> [t \in 1..Len(batch[i].state) |->
                        [obs |-> batch[i].state[t], traj |-> <<iter, i>>, policy |-> policy]],
         action |-> batch[i].action,
         reward |-> batch[i].reward]]


\* variant: the new batch is appended to the trajectories kept so far
AssignTrajectoriesKeepOld(old, new) == old \o new

\* trajectories = self.get_trajectories()
AssignTrajectories(old, new) == new

\* [trajectory[field] for trajectory in trajectories]
Field(trajs, field) == [i \in 1..Len(trajs) |-> trajs[i][field]]

\* (possible_actions == all_action[:, None]).astype(np.float32)
OneHot(acts) == [j \in 1..Len(acts) |-> [a \in Actions |-> IF a = acts[j] THEN 1 ELSE 0]]

AllAction(cls, trajs) ==
    IF cls = "A2CDiscrete"
    THEN OneHot(Concatenate(Field(trajs, "action")))
    ELSE Concatenate(Field(trajs, "action"))


\* variant: the states of the first trajectory are left out
AllStateSkipsFirst(trajs) == Concatenate(Field(Tail(trajs), "state"))

AllState(trajs) == Concatenate(Field(trajs, "state"))


\* variant: the rewards are pooled before they are discounted
ReturnsOfPooledRewards(trajs, gamma) ==
    discount_rewards(Concatenate(Field(trajs, "reward")), gamma)

Returns(trajs, gamma) ==
    Concatenate([i \in 1..Len(trajs) |-> discount_rewards(trajs[i].reward, gamma)])

CollectAndAggregate ==
    /\ pc = "collect"
    /\ \E batch \in get_trajectories :
          LET trajs == AssignTrajectories(trajectories, Tagged(batch, iteration, actorVersion))
          IN  /\ trajectories' = trajs
              /\ collected' = collected \cup {<<iteration, i>> : i \in 1..Len(batch)}
              /\ collectedSteps' = BatchTimesteps(batch)
              /\ total_n_trajectories' = total_n_trajectories + Len(trajs)
              /\ all_action' = AllAction(agent, trajs)
              /\ all_state' = AllState(trajs)
              /\ returns' = Returns(trajs, config.gamma)
              /\ episode_rewards' = [i \in 1..Len(trajs) |-> SumSeq(trajs[i].reward)]
              /\ episode_lengths' = [i \in 1..Len(trajs) |-> Len(trajs[i].reward)]
    /\ pc' = "evaluate"
    /\ UNCHANGED <<outcome, raised, setupVars, iteration, qw_new, effectVars>>

\* reset or step of the environment raises inside get_trajectories
EnvFailure ==
    /\ pc = "collect"
    /\ Raise("EnvError")
    /\ UNCHANGED <<setupVars, learnerVars, effectVars>>

get_critic_value(state) == [j \in 1..Len(state) |-> CriticValue(criticVersion, state[j])]

EvaluateCritic ==
    /\ pc = "evaluate"
    /\ qw_new' = get_critic_value(all_state)
    /\ pc' = "update"
    /\ UNCHANGED <<outcome, raised, setupVars, iteration, total_n_trajectories, trajectories,
                   all_action, all_state, returns, episode_rewards, episode_lengths,
                   collected, collectedSteps, effectVars>>


\* variant: the baseline is the critic's value after this iteration's step
CriticFeedbackAfterStep(qw, state) ==
    [j \in 1..Len(state) |-> CriticValue(criticVersion + 1, state[j])]

\* the value fed for self.critic_feedback
CriticFeedback(qw, state) == qw


\* variant: only critic_train is run
TrainStepCriticOnly(versions) == [actor |-> versions.actor, critic |-> versions.critic + 1]

\* the parameter versions after sess.run([..., critic_train, actor_train])
TrainStep(versions) == [actor |-> versions.actor + 1, critic |-> versions.critic + 1]

Range(s) == {s[j] : j \in 1..Len(s)}

Update ==
    /\ pc = "update"
    /\ LET fd == [critic_state_in |-> all_state,
                  critic_target |-> returns,
                  actor_input |-> all_state,
                  actions_taken |-> all_action,
                  critic_feedback |-> CriticFeedback(qw_new, all_state),
                  critic_rewards |-> returns,
                  rewards |-> Mean(episode_rewards),
                  episode_lengths |-> Mean(episode_lengths)]
           after == TrainStep([actor |-> actorVersion, critic |-> criticVersion])
       IN  /\ feed' = <<fd>>
           /\ actorVersion' = after.actor
           /\ criticVersion' = after.critic
           /\ updates' = Append(updates,
                  [iteration |-> iteration,
                   actor |-> actorVersion,
                   critic |-> criticVersion,
                   src |-> {s.traj : s \in Range(fd.actor_input)},
                   policies |-> {s.policy : s \in Range(fd.actor_input)},
                   baselines |-> {q[1] : q \in Range(fd.critic_feedback)}])
    /\ pc' = "add_summary"
    /\ UNCHANGED <<outcome, raised, setupVars, learnerVars, summaries, reports>>

\* self.writer.add_summary(results[0], iteration); self.writer.flush()
AddSummary ==
    /\ pc = "add_summary"
    /\ summaries' = Append(summaries, iteration)
    /\ feed' = <<>>
    /\ pc' = "report"
    /\ UNCHANGED <<outcome, raised, setupVars, learnerVars, actorVersion, criticVersion,
                   updates, reports>>

\* reporter.print_iteration_stats(...), then the next value of range()
Report ==
    /\ pc = "report"
    /\ reports' = Append(reports, [iteration |-> iteration,
                                   total_n_trajectories |-> total_n_trajectories])
    /\ iteration' = iteration + 1
    /\ pc' = "loop"
    /\ UNCHANGED <<outcome, raised, setupVars, total_n_trajectories, trajectories,
                   all_action, all_state, returns, qw_new, episode_rewards,
                   episode_lengths, collected, collectedSteps, actorVersion,
                   criticVersion, feed, updates, summaries>>

Next ==
    \/ ParseArgs
    \/ ParseArgsFail
    \/ GymMake
    \/ ConstructAgent
    \/ WrapMonitor
    \/ KeyboardInterrupt
    \/ LoopHead
    \/ CollectAndAggregate
    \/ EnvFailure
    \/ EvaluateCritic
    \/ Update
    \/ AddSummary
    \/ Report

Spec == Init /\ [][Next]_vars

\* the same run with hidden-layer sizes set by the user configuration
SpecUserConfig == InitUserConfig /\ [][Next]_vars

TypeOK ==
    /\ pc \in {"parse_args", "make_env", "construct", "exit"} \cup TryBlock
    /\ outcome \in {"running", "returned", "KeyboardInterrupt", "NotImplementedError",
                    "ValueError", "EnvError", "SystemExit"}
    /\ iteration \in 0..MaxNIter
    /\ Len(updates) <= MaxNIter

\* ------------------------------------------------------------ properties
CollectedIn(k) == {c \in collected : c[1] = k}

\* learn() ran through its loop and returned
Completed == outcome = "returned" /\ raised.exc = "none"

\* C1: learn() never performs more than config["n_iter"] update cycles, and
\* an execution that runs to completion performs exactly config["n_iter"].
C1_IterationCount ==
    /\ Len(updates) <= config.n_iter
    /\ Len(summaries) <= config.n_iter
    /\ Len(reports) <= config.n_iter
    /\ Completed => /\ Len(updates) = config.n_iter
                    /\ Len(summaries) = config.n_iter
                    /\ Len(reports) = config.n_iter

C1_Witness == Completed /\ config.n_iter = MaxNIter /\ Len(updates) = MaxNIter

\* C2: the numbers of states, actions and returns fed to an update all equal
\* the sum of the lengths of the trajectories collected in that iteration.
C2_BatchAggregation ==
    feed # <<>> =>
        LET fd == feed[1]
            n == collectedSteps
        IN  /\ Len(fd.critic_state_in) = n
            /\ Len(fd.actor_input) = n
            /\ Len(fd.actions_taken) = n
            /\ Len(fd.critic_target) = n
            /\ Len(fd.critic_rewards) = n

C2_Witness ==
    /\ feed # <<>>
    /\ iteration > 0
    /\ Len(trajectories) > 1
    /\ Len(feed[1].actor_input) = TimestepsPerBatch + 1

Offset(trajs, i) == SumSeq([k \in 1..(i - 1) |-> Len(trajs[k].reward)])

\* the segment of vector ret that starts at offset o is the discounted
\* return sequence of the reward sequence r alone
OwnReturns(ret, o, r, gamma) ==
    \A t \in 1..Len(r) :
        ret[o + t] = IF t = Len(r)
                     THEN Rat(r[t])
                     ELSE RAdd(Rat(r[t]), RMul(gamma, ret[o + t + 1]))

\* C3: the returns fed to the update are the concatenation, in trajectory
\* order, of each trajectory's own discounted returns: last step r[T-1],
\* earlier steps r[t] + gamma * return[t+1] of the same trajectory.
C3_PerTrajectoryReturns ==
    feed # <<>> =>
        /\ feed[1].critic_target = feed[1].critic_rewards
        /\ Len(feed[1].critic_target) = BatchTimesteps(trajectories)
        /\ \A i \in 1..Len(trajectories) :
              OwnReturns(feed[1].critic_target, Offset(trajectories, i),
                         trajectories[i].reward, config.gamma)

C3_Witness ==
    /\ feed # <<>>
    /\ Len(trajectories) > 1
    /\ trajectories[1].reward[Len(trajectories[1].reward)] > 0
    /\ trajectories[2].reward[1] > 0

\* C4: the baseline fed to the update of iteration k is the value of the
\* critic as it was before that update and after the update of iteration k-1.
C4_BaselineBeforeUpdate ==
    \A k \in 1..Len(updates) :
        /\ updates[k].baselines = {updates[k].critic}
        /\ updates[k].critic = k - 1
        /\ updates[k].iteration = k - 1

C4_Witness == Len(updates) > 1 /\ updates[2].baselines = {1}

\* C5: after k completed iterations the actor and the critic parameters have
\* each been updated exactly k times, whatever the number of trajectories.
C5_OneJointStepPerIteration ==
    /\ actorVersion = criticVersion
    /\ actorVersion = Len(updates)
    /\ pc \in {"loop", "collect", "evaluate", "update"} => actorVersion = iteration
    /\ pc \in {"add_summary", "report"} => actorVersion = iteration + 1
    /\ Completed => actorVersion = config.n_iter

C5_Witness ==
    /\ pc = "loop"
    /\ iteration = MaxNIter
    /\ actorVersion = MaxNIter
    /\ Len(trajectories) > 1

Terminated == pc = "exit" /\ ~ENABLED Next

\* C6 as stated: a KeyboardInterrupt raised during environment creation,
\* agent construction, monitor wrapping or learn() makes main() return
\* normally, and nothing happens after it.
C6_InterruptRecoveredAnywhere ==
    (raised.exc = "KeyboardInterrupt" /\ raised.at \in {"make_env", "construct"} \cup TryBlock)
        => (outcome = "returned" /\ Terminated)

\* C6 as amended: a KeyboardInterrupt raised during monitor wrapping or any
\* phase of learn() makes main() return normally and nothing happens after
\* it; one raised during environment creation or agent construction
\* propagates out of main(), again with nothing happening after it.
C6_InterruptRecoveredInTry ==
    raised.exc = "KeyboardInterrupt" =>
        /\ raised.at \in TryBlock => outcome = "returned"
        /\ raised.at \in {"make_env", "construct"} => outcome = "KeyboardInterrupt"
        /\ Terminated

C6_Witness ==
    /\ raised.exc = "KeyboardInterrupt"
    /\ raised.at = "wrap"
    /\ outcome = "returned"

\* C7: with an action space that is neither Discrete nor Box, main() fails
\* with NotImplementedError before any learner or network is constructed,
\* learn() is never entered and nothing is collected, updated or recorded.
C7_UnsupportedActionSpace ==
    action_space = "Other" =>
        /\ pc \in {"construct", "exit"}
        /\ outcome \in {"running", "NotImplementedError", "KeyboardInterrupt"}
        /\ raised.at \in {"none", "construct"}
        /\ agent = "none"
        /\ critic = <<>>
        /\ collected = {}
        /\ updates = <<>>
        /\ summaries = <<>>
        /\ reports = <<>>
        /\ pc = "exit" => Terminated

C7_Witness ==
    /\ action_space = "Other"
    /\ outcome = "NotImplementedError"
    /\ raised = [exc |-> "NotImplementedError", at |-> "construct"]

\* C8: a failure of the environment during trajectory collection is neither
\* caught nor retried: it leaves main(), and the failing iteration and all
\* later ones produce no update, no summary record and no report.
C8_EnvFailurePropagates ==
    raised.exc = "EnvError" =>
        /\ outcome = "EnvError"
        /\ Terminated
        /\ Len(updates) = iteration
        /\ Len(summaries) = iteration
        /\ Len(reports) = iteration

C8_Witness == raised.exc = "EnvError" /\ iteration > 0 /\ outcome = "EnvError"

\* C9: the update of iteration k is fed exactly the trajectories collected in
\* iteration k, all of them collected under the policy left by the k-1
\* preceding updates; no trajectory is fed to two updates, and every
\* trajectory of a completed iteration is fed to exactly one.
C9_OnPolicy ==
    /\ \A k \in 1..Len(updates) :
          /\ updates[k].src = CollectedIn(k - 1)
          /\ updates[k].policies = {k - 1}
          /\ updates[k].actor = k - 1
    /\ \A c \in collected :
          LET n == Cardinality({k \in 1..Len(updates) : c \in updates[k].src})
          IN  /\ n <= 1
              /\ c[1] < Len(updates) => n = 1

C9_Witness ==
    /\ Len(updates) > 1
    /\ Cardinality(updates[2].src) > 1
    /\ updates[2].policies = {1}

\* C10: for every pair of hidden-layer sizes the critic built by
\* build_networks() is sized by critic_n_hidden alone (the bias of the
\* hidden layer and the rows of the output weights match the columns of the
\* hidden weights) and its construction never fails on a shape mismatch.
C10_CriticSizedByCriticHidden ==
    /\ outcome # "ValueError"
    /\ critic # <<>> =>
          /\ critic[1].critic_W0[2] = config.critic_n_hidden
          /\ critic[1].critic_b0[1] = critic[1].critic_W0[2]
          /\ critic[1].critic_W1[1] = critic[1].critic_W0[2]
====
